---- MODULE Spec2Model ----
(***************************************************************************)
(* Storage-ownership layer of ndarray (src/src/data_traits.rs).            *)
(*                                                                         *)
(* The state is a heap of element buffers (Vec<A> allocations, with the    *)
(* strong count of the Rc that wraps a shared one) and a set of array      *)
(* handles (ArrayBase<S, D>: data, ptr, dim, strides).  Pointers are byte  *)
(* addresses, so that the offset arithmetic of ensure_unique and           *)
(* clone_with_ptr (address difference divided by the element size) is      *)
(* computed as the code computes it, the zero-sized element type included. *)
(***************************************************************************)
EXTENDS Integers, Sequences, FiniteSets, TLC

\* ---------------------------------------------------------------- bounds
\* Handle slots, and as many buffers: every buffer has a handle.
MaxHandles == 2
\* Longest buffer constructed.
MaxLen == 4
\* Elements written in one run.
MaxWrite == 1

\* ------------------------------------------------------- modelling values
\* Distance between the base addresses of two allocations.
Region == 64
\* Address of a Vec that owns no memory (NonNull::dangling()).
Dangling == 1
\* size_of::<A>() of the element types explored: a zero-sized type and a
\* four-byte type.
ElemSizes == {0, 4}
\* Slices of an axis of length n, as (start, end, step): without the first
\* element, reversed, every other element, none.
SliceNames == {"tail", "reversed", "alternate", "none"}
Si(n, name) ==
    CASE name = "tail" -> <<1, n, 1>>
      [] name = "reversed" -> <<0, n, -1>>
      [] name = "alternate" -> <<0, n, 2>>
      [] name = "none" -> <<0, 0, 1>>
\* The one value of a zero-sized type.
Unit == <<>>
\* The values a write stores: one that no constructed array holds.
WriteVals == {0}

Handles == 1..MaxHandles
Bufs == 1..MaxHandles

\* a_size: size_of::<A>();  arr: the handles;  mem: the buffers;
\* last: the operation that led to this state, its handle, the branch of
\* ensure_unique it took and whether it repeats an ensure_unique of the same
\* handle;  pre: the handles and buffers before a promotion, a write or a
\* duplication;  writes: the number of writes so far.
VARIABLES a_size, arr, mem, last, pre, writes
vars == <<a_size, arr, mem, last, pre, writes>>

\* ------------------------------------------------------------ dimensions
RECURSIVE size(_)
\* Dimension::size: the number of elements of a shape.
size(dim) ==
    IF dim = <<>> THEN 1 ELSE Head(dim) * size(Tail(dim))

RECURSIVE default_strides(_)
\* Dimension::default_strides: shape (a, b, c) gives strides (b*c, c, 1).
default_strides(dim) ==
    IF dim = <<>> THEN <<>>
    ELSE <<size(Tail(dim))>> \o default_strides(Tail(dim))

RECURSIVE Concat(_, _)
Concat(f, n) ==
    IF n = 0 THEN <<>> ELSE Concat(f, n - 1) \o f[n]

RECURSIVE iter(_, _)
\* ArrayBase::iter: the element offsets (from ptr, in elements) of a view
\* in logical order, the last axis varying fastest.
iter(dim, strides) ==
    IF dim = <<>> THEN <<0>>
    ELSE LET rest == iter(Tail(dim), Tail(strides))
             row == [i \in 1..Head(dim) |->
                       [j \in 1..Len(rest) |-> (i - 1) * Head(strides) + rest[j]]]
         IN Concat(row, Head(dim))

\* Shapes of the arrays constructed: one axis of odd or even length, or two
\* axes of two elements or more.  Shorter buffers come from compaction.
Shapes ==
    {<<n>> : n \in (MaxLen - 1)..MaxLen}
      \cup {d \in [1..2 -> 2..MaxLen] : size(d) <= MaxLen}

\* ------------------------------------------------------------------ heap
NoBuf == [alloc |-> FALSE, elems |-> <<>>, strong |-> 0]
NoArray == [live |-> FALSE, kind |-> "none", data |-> 0, ptr |-> 0,
            dim |-> <<>>, strides |-> <<>>]

\* The allocator: the lowest free buffer.
fresh(m) ==
    CHOOSE b \in Bufs : ~m[b].alloc /\ \A c \in Bufs : c < b => m[c].alloc

\* Vec::as_ptr: the address of element 0 of buffer b.
as_ptr(m, b) ==
    IF a_size = 0 \/ Len(m[b].elems) = 0 THEN Dangling ELSE b * Region

\* pointer.offset(n)
offset(p, n) == p + n * a_size

\* Reading the element at address p of buffer b.
deref(m, b, p) ==
    IF a_size = 0 THEN Unit
    ELSE m[b].elems[(p - as_ptr(m, b)) \div a_size + 1]

\* The elements visible through handle x, in logical order.
visible(m, x) ==
    LET offs == iter(x.dim, x.strides)
    IN [i \in 1..Len(offs) |-> deref(m, x.data, offset(x.ptr, offs[i]))]

\* Element index of a handle's pointer in its buffer.
elem_off(m, x) ==
    IF a_size = 0 THEN 0 ELSE (x.ptr - as_ptr(m, x.data)) \div a_size

\* Rc::new
Rc_new(m, b, v) ==
    [m EXCEPT ![b] = [alloc |-> TRUE, elems |-> v, strong |-> 1]]

\* Rc::clone
Rc_clone(m, b) ==
    [m EXCEPT ![b].strong = @ + 1]

\* The drop of an Rc as a bug might write it: a shared count is not
\* decremented.
Rc_drop_no_decrement(m, b) ==
    IF m[b].strong = 1 THEN [m EXCEPT ![b] = NoBuf] ELSE m

\* Drop of an Rc: the count goes down, the last owner releases the Vec.
Rc_drop(m, b) ==
    IF m[b].strong = 1 THEN [m EXCEPT ![b] = NoBuf]
    ELSE [m EXCEPT ![b].strong = @ - 1]

\* The uniqueness test as a bug might write it: any owner passes.
is_unique_any_owner(m, b) ==
    m[b].strong >= 1

\* The uniqueness test as a bug might write it: no owner passes.
is_unique_never(m, b) ==
    FALSE

\* DataMut::is_unique for Rc<Vec<A>>: Rc::get_mut(..).is_some()
is_unique(m, b) ==
    m[b].strong = 1

\* ArrayBase::from_shape_vec_unchecked(dim, v) stored in buffer b: a
\* standard-layout array over the whole of v.
from_shape_vec_unchecked(m, b, dim) ==
    [live |-> TRUE, kind |-> "Rc", data |-> b, ptr |-> as_ptr(m, b),
     dim |-> dim, strides |-> default_strides(dim)]

\* ------------------------------------------------------------ operations
\* The compacting copy as a bug might write it: the first size(dim) elements
\* of the buffer are copied, whatever the view.
compacting_copy_prefix(a, m, h) ==
    LET x == a[h]
        b == x.data
        nb == fresh(m)
        m1 == Rc_new(m, nb, SubSeq(m[b].elems, 1, size(x.dim)))
        m2 == Rc_drop(m1, b)
    IN [arr |-> [a EXCEPT ![h] = from_shape_vec_unchecked(m1, nb, x.dim)],
        mem |-> m2, branch |-> "compact"]

\* The compacting copy as a bug might write it: the old handle is not
\* dropped, so the original buffer keeps the reference of the promoted handle.
compacting_copy_keeps_reference(a, m, h) ==
    LET x == a[h]
        nb == fresh(m)
        m1 == Rc_new(m, nb, visible(m, x))
    IN [arr |-> [a EXCEPT ![h] = from_shape_vec_unchecked(m1, nb, x.dim)],
        mem |-> m1, branch |-> "compact"]

\* The compacting copy as a bug might write it: the whole buffer is copied
\* and the new array shows its first elements.
compacting_copy_whole_buffer(a, m, h) ==
    LET x == a[h]
        b == x.data
        nb == fresh(m)
        m1 == Rc_new(m, nb, m[b].elems)
        m2 == Rc_drop(m1, b)
    IN [arr |-> [a EXCEPT ![h] = from_shape_vec_unchecked(m1, nb, x.dim)],
        mem |-> m2, branch |-> "compact"]

\* ensure_unique, the compacting copy: the handle becomes a new array of
\* its dimension over the elements of its view, collected in logical order;
\* the assignment drops the old handle and with it one reference.
compacting_copy(a, m, h) ==
    LET x == a[h]
        b == x.data
        nb == fresh(m)
        m1 == Rc_new(m, nb, visible(m, x))
        m2 == Rc_drop(m1, b)
    IN [arr |-> [a EXCEPT ![h] = from_shape_vec_unchecked(m1, nb, x.dim)],
        mem |-> m2, branch |-> "compact"]

\* The full duplication as a bug might write it: the pointer is left at the
\* start of the new buffer.
full_duplication_no_rebase(a, m, h) ==
    LET x == a[h]
        b == x.data
        nb == fresh(m)
        m1 == Rc_new(m, nb, m[b].elems)
        m2 == Rc_drop(m1, b)
    IN [arr |-> [a EXCEPT ![h].data = nb, ![h].ptr = as_ptr(m1, nb)],
        mem |-> m2, branch |-> "full"]

\* The full duplication as a bug might write it: the address difference is
\* used as the element offset, without the division by the element size.
full_duplication_byte_offset(a, m, h) ==
    LET x == a[h]
        b == x.data
        our_off == IF a_size # 0 THEN x.ptr - as_ptr(m, b) ELSE 0
        nb == fresh(m)
        m1 == Rc_new(m, nb, m[b].elems)
        m2 == Rc_drop(m1, b)
    IN [arr |-> [a EXCEPT ![h].data = nb,
                          ![h].ptr = offset(as_ptr(m1, nb), our_off)],
        mem |-> m2, branch |-> "full"]

\* The full duplication as a bug might write it: the address difference is
\* divided by the element size whatever the size; for a zero-sized type the
\* division panics and the promotion does not complete.
full_duplication_divides(a, m, h) ==
    IF a_size = 0
    THEN [arr |-> a, mem |-> m, branch |-> "panic"]
    ELSE LET x == a[h]
             b == x.data
             our_off == (x.ptr - as_ptr(m, b)) \div a_size
             nb == fresh(m)
             m1 == Rc_new(m, nb, m[b].elems)
             m2 == Rc_drop(m1, b)
         IN [arr |-> [a EXCEPT ![h].data = nb,
                               ![h].ptr = offset(as_ptr(m1, nb), our_off)],
             mem |-> m2, branch |-> "full"]

\* The full duplication as a bug might write it: the reference to the old Rc
\* is kept, so the count of the original buffer does not go down.
full_duplication_keeps_reference(a, m, h) ==
    LET x == a[h]
        b == x.data
        our_off == IF a_size # 0
                   THEN (x.ptr - as_ptr(m, b)) \div a_size
                   ELSE 0
        nb == fresh(m)
        m1 == Rc_new(m, nb, m[b].elems)
    IN [arr |-> [a EXCEPT ![h].data = nb,
                          ![h].ptr = offset(as_ptr(m1, nb), our_off)],
        mem |-> m1, branch |-> "full"]

\* ensure_unique, the full duplication: the element offset of the pointer,
\* Rc::make_mut on a shared Rc (a clone of the Vec in a new Rc, the old
\* reference dropped), and the pointer at that offset of the new Vec.
full_duplication(a, m, h) ==
    LET x == a[h]
        b == x.data
        our_off == IF a_size # 0
                   THEN (x.ptr - as_ptr(m, b)) \div a_size
                   ELSE 0
        nb == fresh(m)
        m1 == Rc_new(m, nb, m[b].elems)
        m2 == Rc_drop(m1, b)
    IN [arr |-> [a EXCEPT ![h].data = nb,
                          ![h].ptr = offset(as_ptr(m1, nb), our_off)],
        mem |-> m2, branch |-> "full"]

\* ensure_unique as a bug might write it: a view of exactly half of the
\* buffer is not compacted.
ensure_unique_strict_half(a, m, h) ==
    IF is_unique(m, a[h].data)
    THEN [arr |-> a, mem |-> m, branch |-> "inplace"]
    ELSE IF size(a[h].dim) < Len(m[a[h].data].elems) \div 2
    THEN compacting_copy(a, m, h)
    ELSE full_duplication(a, m, h)

\* ensure_unique as a bug might write it: the size of the view is tested
\* before the uniqueness of the buffer.
ensure_unique_size_first(a, m, h) ==
    IF size(a[h].dim) <= Len(m[a[h].data].elems) \div 2
    THEN compacting_copy(a, m, h)
    ELSE IF is_unique(m, a[h].data)
    THEN [arr |-> a, mem |-> m, branch |-> "inplace"]
    ELSE full_duplication(a, m, h)

\* ensure_unique as a bug might write it: nothing is done for a view of
\* more than half of a shared buffer.
ensure_unique_no_duplication(a, m, h) ==
    IF is_unique(m, a[h].data)
    THEN [arr |-> a, mem |-> m, branch |-> "inplace"]
    ELSE IF size(a[h].dim) <= Len(m[a[h].data].elems) \div 2
    THEN compacting_copy(a, m, h)
    ELSE [arr |-> a, mem |-> m, branch |-> "full"]

\* ensure_unique as a bug might write it: half of the buffer length is
\* rounded up.
ensure_unique_half_rounded_up(a, m, h) ==
    IF is_unique(m, a[h].data)
    THEN [arr |-> a, mem |-> m, branch |-> "inplace"]
    ELSE IF size(a[h].dim) <= (Len(m[a[h].data].elems) + 1) \div 2
    THEN compacting_copy(a, m, h)
    ELSE full_duplication(a, m, h)

\* DataMut::ensure_unique for Rc<Vec<A>>, as a function of the handles and
\* the heap: the new handles, the new heap and the branch taken.
ensure_unique(a, m, h) ==
    IF is_unique(m, a[h].data)
    THEN [arr |-> a, mem |-> m, branch |-> "inplace"]
    ELSE IF size(a[h].dim) <= Len(m[a[h].data].elems) \div 2
    THEN compacting_copy(a, m, h)
    ELSE full_duplication(a, m, h)

\* ensure_unique as a bug might write it: the copy-on-write protocol is run
\* for every storage kind.
ensure_unique_of_every_kind(a, m, h) ==
    ensure_unique(a, m, h)

\* DataMut::ensure_unique of the storage kind of handle h.
ensure_unique_of(a, m, h) ==
    IF a[h].kind = "Rc" THEN ensure_unique(a, m, h)
    ELSE [arr |-> a, mem |-> m, branch |-> "none"]

\* clone_with_ptr for Rc<Vec<A>> as a bug might write it: the Vec is cloned
\* into a new Rc and the pointer rebased.
clone_with_ptr_Rc_deep(m, b, ptr) ==
    LET u == fresh(m)
        m1 == Rc_new(m, u, m[b].elems)
    IN [mem |-> m1, data |-> u,
        ptr |-> IF a_size # 0
                THEN offset(as_ptr(m1, u), (ptr - as_ptr(m, b)) \div a_size)
                ELSE as_ptr(m1, u)]

\* clone_with_ptr for Rc<Vec<A>> as a bug might write it: the pointer of the
\* duplicate is put at the start of the buffer.
clone_with_ptr_Rc_ptr_reset(m, b, ptr) ==
    [mem |-> Rc_clone(m, b), data |-> b, ptr |-> as_ptr(m, b)]

\* DataClone::clone_with_ptr for Rc<Vec<A>>: the count goes up, the
\* pointer is preserved.
clone_with_ptr_Rc(m, b, ptr) ==
    [mem |-> Rc_clone(m, b), data |-> b, ptr |-> ptr]

\* clone_with_ptr for Vec<A> as a bug might write it: the pointer is left at
\* the start of the copy.
clone_with_ptr_Vec_no_rebase(m, b, ptr) ==
    LET u == fresh(m)
        m1 == [m EXCEPT ![u] = [alloc |-> TRUE, elems |-> m[b].elems, strong |-> 0]]
    IN [mem |-> m1, data |-> u, ptr |-> as_ptr(m1, u)]

\* DataClone::clone_with_ptr for Vec<A>: a deep copy, and the pointer at the
\* same element offset of the copy.
clone_with_ptr_Vec(m, b, ptr) ==
    LET u == fresh(m)
        m1 == [m EXCEPT ![u] = [alloc |-> TRUE, elems |-> m[b].elems, strong |-> 0]]
        new_ptr == as_ptr(m1, u)
    IN [mem |-> m1, data |-> u,
        ptr |-> IF a_size # 0
                THEN offset(new_ptr, (ptr - as_ptr(m, b)) \div a_size)
                ELSE new_ptr]

\* DataClone::clone_with_ptr for ViewRepr<&A>: the view is copied, the
\* pointer is preserved; the borrowed memory is not touched.
clone_with_ptr_View(m, b, ptr) ==
    [mem |-> m, data |-> b, ptr |-> ptr]

\* The storage kinds: the types that implement Data.
Kinds == {"Vec", "Rc", "View", "ViewMut"}
\* The storage kinds that implement DataMut, DataClone and DataOwned.
DataMutImpl == {"Rc", "Vec", "ViewMut"}
\* DataClone as a bug might implement it: for the mutable view as well.
DataCloneImpl_every_kind == Kinds
DataCloneImpl == {"Rc", "Vec", "View"}
DataOwnedImpl == {"Vec", "Rc"}

\* DataClone::clone_with_ptr of storage kind `kind`.
clone_with_ptr(kind, m, b, ptr) ==
    IF kind = "Rc" THEN clone_with_ptr_Rc(m, b, ptr)
    ELSE IF kind = "Vec" THEN clone_with_ptr_Vec(m, b, ptr)
    ELSE clone_with_ptr_View(m, b, ptr)

\* clone_from_with_ptr for Vec<A> as a bug might write it: the pointer is
\* left at the start of self.
clone_from_with_ptr_Vec_no_rebase(m, b, other, ptr) ==
    LET m1 == [m EXCEPT ![b].elems = m[other].elems]
    IN [mem |-> m1, data |-> b, ptr |-> as_ptr(m1, b)]

\* DataClone::clone_from_with_ptr for Vec<A>: the element offset of ptr in
\* other (0 for a zero-sized type), self.clone_from(other) in the allocation
\* of self, and the pointer at that offset of self.
clone_from_with_ptr_Vec(m, b, other, ptr) ==
    LET our_off == IF a_size # 0
                   THEN (ptr - as_ptr(m, other)) \div a_size
                   ELSE 0
        m1 == [m EXCEPT ![b].elems = m[other].elems]
    IN [mem |-> m1, data |-> b, ptr |-> offset(as_ptr(m1, b), our_off)]

\* DataClone::clone_from_with_ptr, the default of the trait: other's
\* clone_with_ptr, and the assignment to self, which drops the old storage.
clone_from_with_ptr_default(kind, m, b, other, ptr) ==
    LET r == clone_with_ptr(kind, m, other, ptr)
    IN [mem |-> IF kind = "Rc" THEN Rc_drop(r.mem, b) ELSE r.mem,
        data |-> r.data, ptr |-> r.ptr]

\* DataClone::clone_from_with_ptr of storage kind `kind`.
clone_from_with_ptr(kind, m, b, other, ptr) ==
    IF kind = "Vec" THEN clone_from_with_ptr_Vec(m, b, other, ptr)
    ELSE clone_from_with_ptr_default(kind, m, b, other, ptr)

\* _data_slice as a bug might write it: a view gives the memory it borrows.
data_slice_of_every_kind(m, x) ==
    m[x.data].elems

\* Data::_data_slice: the Vec of an owned or shared buffer, the empty slice
\* for both kinds of view.
data_slice(m, x) ==
    IF x.kind \in {"Vec", "Rc"} THEN m[x.data].elems ELSE << >>

\* DataMut::is_unique of the storage kind of handle x: the count test for
\* Rc<Vec<A>>, the default `true` of the trait otherwise.
is_unique_of(m, x) ==
    IF x.kind = "Rc" THEN is_unique(m, x.data) ELSE TRUE

\* do_slice: one axis of length n and stride s cut to [start, end) with
\* step: the offset of the pointer, the new length and the new stride.
do_slice(n, s, start, end, step) ==
    LET m == end - start
        abs == IF step < 0 THEN -step ELSE step
    IN [off |-> IF m = 0 THEN 0
                ELSE IF step < 0 THEN (end - 1) * s ELSE start * s,
        dim |-> m \div abs + (IF m % abs > 0 THEN 1 ELSE 0),
        stride |-> s * step]

\* The lowest free handle slot.
free_slot(a) ==
    CHOOSE g \in Handles : ~a[g].live /\ \A f \in Handles : f < g => a[f].live

\* DataOwned::new for Vec<A> and for Rc<Vec<A>> of the elements 1..n (units
\* for a zero-sized type), seen as a standard-layout array of shape dim in
\* buffer b.
new(kind, b, dim) ==
    LET v == [i \in 1..size(dim) |-> IF a_size = 0 THEN Unit ELSE i]
        m == [c \in Bufs |-> IF c = b
                              THEN [alloc |-> TRUE, elems |-> v,
                                    strong |-> IF kind = "Rc" THEN 1 ELSE 0]
                              ELSE NoBuf]
    IN [mem |-> m,
        array |-> [from_shape_vec_unchecked(m, b, dim) EXCEPT !.kind = kind]]

NoPre == [arr |-> [h \in Handles |-> NoArray], mem |-> [b \in Bufs |-> NoBuf]]

\* The state after construction: one array, owned or shared, of any shape.
Init ==
    /\ a_size \in ElemSizes
    /\ \E kind \in {"Rc", "Vec"}, dim \in Shapes :
          /\ mem = new(kind, 1, dim).mem
          /\ arr = [h \in Handles |-> IF h = 1 THEN new(kind, 1, dim).array
                                       ELSE NoArray]
    /\ last = [op |-> "new", h |-> 1, branch |-> "none", again |-> FALSE]
    /\ pre = NoPre
    /\ writes = 0

\* into_shared as a bug might write it: the elements of the Vec are copied
\* into a new allocation for the Rc.
IntoShared_copies(h) ==
    /\ arr[h].live
    /\ arr[h].kind \in DataOwnedImpl
    /\ \E b \in Bufs : ~mem[b].alloc
    /\ LET nb == fresh(mem)
           m1 == Rc_new(mem, nb, mem[arr[h].data].elems)
       IN IF arr[h].kind = "Vec"
          THEN /\ mem' = [m1 EXCEPT ![arr[h].data] = NoBuf]
               /\ arr' = [arr EXCEPT ![h].kind = "Rc", ![h].data = nb,
                                     ![h].ptr = offset(as_ptr(m1, nb),
                                                       elem_off(mem, arr[h]))]
          ELSE UNCHANGED <<mem, arr>>
    /\ last' = [op |-> "into_shared", h |-> h, branch |-> "none", again |-> FALSE]
    /\ pre' = [arr |-> arr, mem |-> mem]
    /\ UNCHANGED <<a_size, writes>>

\* into_shared as a bug might write it: the count of a buffer that is shared
\* already is set to 1, as for a new Rc.
IntoShared_resets_count(h) ==
    /\ arr[h].live
    /\ arr[h].kind \in DataOwnedImpl
    /\ mem' = [mem EXCEPT ![arr[h].data].strong = 1]
    /\ arr' = [arr EXCEPT ![h].kind = "Rc"]
    /\ last' = [op |-> "into_shared", h |-> h, branch |-> "none", again |-> FALSE]
    /\ pre' = [arr |-> arr, mem |-> mem]
    /\ UNCHANGED <<a_size, writes>>

\* DataOwned::into_shared: for Vec<A>, Rc::new(self), the Vec moves into the
\* Rc with its allocation; for Rc<Vec<A>>, self.
IntoShared(h) ==
    /\ arr[h].live
    /\ arr[h].kind \in DataOwnedImpl
    /\ IF arr[h].kind = "Vec"
       THEN /\ mem' = [mem EXCEPT ![arr[h].data].strong = 1]
            /\ arr' = [arr EXCEPT ![h].kind = "Rc"]
       ELSE UNCHANGED <<mem, arr>>
    /\ last' = [op |-> "into_shared", h |-> h, branch |-> "none", again |-> FALSE]
    /\ pre' = [arr |-> arr, mem |-> mem]
    /\ UNCHANGED <<a_size, writes>>

\* Clone of a handle: clone_with_ptr of its storage, once, and the dimension
\* and strides copied.
Duplicate(h) ==
    /\ arr[h].live
    /\ arr[h].kind \in DataCloneImpl
    /\ \E g \in Handles : ~arr[g].live
    /\ LET g == free_slot(arr)
           x == arr[h]
           r == clone_with_ptr(x.kind, mem, x.data, x.ptr)
       IN /\ mem' = r.mem
          /\ arr' = [arr EXCEPT ![g] = [x EXCEPT !.data = r.data, !.ptr = r.ptr]]
    /\ last' = [op |-> "duplicate", h |-> h, branch |-> "none", again |-> FALSE]
    /\ pre' = [arr |-> arr, mem |-> mem]
    /\ UNCHANGED <<a_size, writes>>

\* The handle views the whole of its buffer in standard layout, as a newly
\* constructed array does.
is_standard_layout(m, x) ==
    /\ x.ptr = as_ptr(m, x.data)
    /\ size(x.dim) = Len(m[x.data].elems)
    /\ x.strides = default_strides(x.dim)

\* The handle narrowed along axis k: no storage operation.  Non-empty
\* arrays in standard layout are sliced, along an axis of two elements or
\* more, so every view is one slice of an array and its pointer is at an
\* element of the buffer.
Slice(h, k, name) ==
    /\ arr[h].live
    /\ is_standard_layout(mem, arr[h])
    /\ size(arr[h].dim) >= 1
    /\ k \in 1..Len(arr[h].dim)
    /\ arr[h].dim[k] >= 2
    /\ LET x == arr[h]
           si == Si(x.dim[k], name)
           r == do_slice(x.dim[k], x.strides[k], si[1], si[2], si[3])
       IN arr' = [arr EXCEPT ![h].ptr = offset(x.ptr, r.off),
                             ![h].dim[k] = r.dim,
                             ![h].strides[k] = r.stride]
    /\ last' = [op |-> "slice", h |-> h, branch |-> "none", again |-> FALSE]
    /\ pre' = NoPre
    /\ UNCHANGED <<a_size, mem, writes>>

\* The promotion protocol run on its own.
EnsureUnique(h) ==
    /\ arr[h].live
    /\ arr[h].kind \in DataMutImpl
    /\ LET r == ensure_unique_of(arr, mem, h)
       IN /\ arr' = r.arr
          /\ mem' = r.mem
          /\ last' = [op |-> "ensure_unique", h |-> h, branch |-> r.branch,
                       again |-> last.op = "ensure_unique" /\ last.h = h]
    /\ pre' = [arr |-> arr, mem |-> mem]
    /\ UNCHANGED <<a_size, writes>>

\* A mutation through handle h: ensure_unique, then the store of v to the
\* i-th visible element.
Write(h, i, v) ==
    /\ arr[h].live
    /\ arr[h].kind \in DataMutImpl
    /\ writes < MaxWrite
    /\ writes' = writes + 1
    /\ i \in 1..size(arr[h].dim)
    /\ LET r == ensure_unique_of(arr, mem, h)
           x == r.arr[h]
           p == offset(x.ptr, iter(x.dim, x.strides)[i])
           at == (p - as_ptr(r.mem, x.data)) \div a_size + 1
       IN /\ arr' = r.arr
          /\ mem' = IF a_size = 0 THEN r.mem
                    ELSE [r.mem EXCEPT ![x.data].elems[at] = v]
          /\ last' = [op |-> "write", h |-> h, branch |-> r.branch, again |-> FALSE]
    /\ pre' = [arr |-> arr, mem |-> mem]
    /\ UNCHANGED a_size

\* The handle goes out of scope: its Rc is dropped, or its Vec released; a
\* view leaves the memory it borrowed.
Drop(h) ==
    /\ arr[h].live
    /\ mem' = IF arr[h].kind = "Rc" THEN Rc_drop(mem, arr[h].data)
              ELSE IF arr[h].kind = "Vec"
              THEN [mem EXCEPT ![arr[h].data] = NoBuf]
              ELSE mem
    /\ arr' = [arr EXCEPT ![h] = NoArray]
    /\ last' = [op |-> "drop", h |-> h, branch |-> "none", again |-> FALSE]
    /\ pre' = NoPre
    /\ UNCHANGED <<a_size, writes>>

Next ==
    \/ \E h \in Handles : IntoShared(h)
    \/ \E h \in Handles : Duplicate(h)
    \/ \E h \in Handles, k \in 1..2, name \in SliceNames : Slice(h, k, name)
    \/ \E h \in Handles : EnsureUnique(h)
    \/ \E h \in Handles, i \in 1..MaxLen, v \in WriteVals : Write(h, i, v)
    \/ \E h \in Handles : Drop(h)

Spec == Init /\ [][Next]_vars

\* ------------------------------------------------- the storage variants
\* The state after construction of one array of any storage kind: an owned
\* or shared array, or a view of memory that is borrowed for the whole run.
InitStorage ==
    /\ a_size \in ElemSizes
    /\ \E kind \in Kinds, dim \in Shapes :
          /\ mem = new(kind, 1, dim).mem
          /\ arr = [h \in Handles |-> IF h = 1 THEN new(kind, 1, dim).array
                                       ELSE NoArray]
    /\ last = [op |-> "new", h |-> 1, branch |-> "none", again |-> FALSE]
    /\ pre = NoPre
    /\ writes = 0

\* Data::_data_slice read through handle h; the slice is kept in last.ret.
DataSlice(h) ==
    /\ arr[h].live
    /\ last' = [op |-> "_data_slice", h |-> h, branch |-> "none",
                again |-> FALSE, ret |-> data_slice(mem, arr[h])]
    /\ pre' = NoPre
    /\ UNCHANGED <<a_size, arr, mem, writes>>

\* clone_from of handle h from handle g of the same storage kind:
\* clone_from_with_ptr of the storage with the pointer of g, and the
\* dimension and strides of g.
CloneFrom(h, g) ==
    /\ h # g /\ arr[h].live /\ arr[g].live
    /\ arr[h].kind = arr[g].kind
    /\ arr[h].kind \in DataCloneImpl
    /\ LET r == clone_from_with_ptr(arr[h].kind, mem, arr[h].data,
                                    arr[g].data, arr[g].ptr)
       IN /\ mem' = r.mem
          /\ arr' = [arr EXCEPT ![h] = [arr[g] EXCEPT !.data = r.data,
                                                      !.ptr = r.ptr]]
    /\ last' = [op |-> "clone_from", h |-> h, branch |-> "none",
                again |-> FALSE, from |-> g]
    /\ pre' = [arr |-> arr, mem |-> mem]
    /\ UNCHANGED <<a_size, writes>>

NextStorage ==
    \/ \E h \in Handles : IntoShared(h)
    \/ \E h \in Handles : Duplicate(h)
    \/ \E h \in Handles, g \in Handles : CloneFrom(h, g)
    \/ \E h \in Handles, k \in 1..2, name \in SliceNames : Slice(h, k, name)
    \/ \E h \in Handles : EnsureUnique(h)
    \/ \E h \in Handles, i \in 1..MaxLen, v \in WriteVals : Write(h, i, v)
    \/ \E h \in Handles : DataSlice(h)
    \/ \E h \in Handles : Drop(h)

SpecStorage == InitStorage /\ [][NextStorage]_vars

\* --------------------------------------------- ensure_unique, step by step
\* The frame of a running ensure_unique on handle h is kept in `last`: the
\* position pc, the elements copied so far and the steps taken.  No
\* promotion is running when last.op is not "promoting".
Idle == last.op # "promoting"

\* The test of ensure_unique as a bug might write it: the call waits at the
\* test until the buffer is unique.
test_step_waits(a, m, f) ==
    IF is_unique(m, a[f.h].data)
    THEN [f EXCEPT !.pc = "return", !.branch = "inplace", !.steps = @ + 1]
    ELSE f

\* The tests of ensure_unique: unique, return; a view of at most half of the
\* buffer, collect its elements; otherwise clone the Vec.
test_step(a, m, f) ==
    IF is_unique(m, a[f.h].data)
    THEN [f EXCEPT !.pc = "return", !.branch = "inplace", !.steps = @ + 1]
    ELSE IF size(a[f.h].dim) <= Len(m[a[f.h].data].elems) \div 2
    THEN [f EXCEPT !.pc = "collect", !.branch = "compact", !.steps = @ + 1]
    ELSE [f EXCEPT !.pc = "clone", !.branch = "full", !.steps = @ + 1]

\* One element more in the copy: the next of `from`.
copy_step(f, from) ==
    [f EXCEPT !.buf = Append(@, from[Len(@) + 1]), !.steps = @ + 1]

\* The result that a completed ensure_unique leaves in `last`.
completed(f) ==
    [op |-> "ensure_unique", h |-> f.h, branch |-> f.branch, again |-> FALSE]

InitPromote ==
    /\ Init
    /\ arr[1].kind = "Rc"

\* ensure_unique is called on a Shared-Buffer handle.
Call(h) ==
    /\ Idle
    /\ arr[h].live /\ arr[h].kind = "Rc"
    /\ last' = [op |-> "promoting", h |-> h, branch |-> "none",
                again |-> FALSE, pc |-> "test", buf |-> << >>, steps |-> 0]
    /\ pre' = [arr |-> arr, mem |-> mem]
    /\ UNCHANGED <<a_size, arr, mem, writes>>

Test ==
    /\ last.op = "promoting" /\ last.pc = "test"
    /\ last' = test_step(arr, mem, last)
    /\ UNCHANGED <<a_size, arr, mem, pre, writes>>

\* The buffer is unique: return.
Return ==
    /\ last.op = "promoting" /\ last.pc = "return"
    /\ last' = completed(last)
    /\ UNCHANGED <<a_size, arr, mem, pre, writes>>

\* self_.iter().cloned().collect(), one element.
Collect ==
    /\ last.op = "promoting" /\ last.pc = "collect"
    /\ Len(last.buf) < size(arr[last.h].dim)
    /\ last' = copy_step(last, visible(mem, arr[last.h]))
    /\ UNCHANGED <<a_size, arr, mem, pre, writes>>

\* *self_ = from_shape_vec_unchecked(dim, collected): the new array in a new
\* Rc, the old handle dropped.
Assign ==
    /\ last.op = "promoting" /\ last.pc = "collect"
    /\ Len(last.buf) = size(arr[last.h].dim)
    /\ LET h == last.h
           nb == fresh(mem)
           m1 == Rc_new(mem, nb, last.buf)
       IN /\ arr' = [arr EXCEPT ![h] = from_shape_vec_unchecked(m1, nb, arr[h].dim)]
          /\ mem' = Rc_drop(m1, arr[h].data)
    /\ last' = completed(last)
    /\ UNCHANGED <<a_size, pre, writes>>

\* Rc::make_mut on a shared Rc: the clone of the Vec, one element.
Clone ==
    /\ last.op = "promoting" /\ last.pc = "clone"
    /\ Len(last.buf) < Len(mem[arr[last.h].data].elems)
    /\ last' = copy_step(last, mem[arr[last.h].data].elems)
    /\ UNCHANGED <<a_size, arr, mem, pre, writes>>

\* The clone in a new Rc, the old reference dropped, and the pointer at the
\* element offset it had.
Rebase ==
    /\ last.op = "promoting" /\ last.pc = "clone"
    /\ Len(last.buf) = Len(mem[arr[last.h].data].elems)
    /\ LET h == last.h
           our_off == elem_off(mem, arr[h])
           nb == fresh(mem)
           m1 == Rc_new(mem, nb, last.buf)
       IN /\ arr' = [arr EXCEPT ![h].data = nb,
                                ![h].ptr = offset(as_ptr(m1, nb), our_off)]
          /\ mem' = Rc_drop(m1, arr[h].data)
    /\ last' = completed(last)
    /\ UNCHANGED <<a_size, pre, writes>>

\* The steps of the running ensure_unique.
PromoteStep == Test \/ Return \/ Collect \/ Assign \/ Clone \/ Rebase

NextPromote ==
    \/ \E h \in Handles : Idle /\ Duplicate(h)
    \/ \E h \in Handles, k \in 1..2, name \in SliceNames :
          Idle /\ Slice(h, k, name)
    \/ \E h \in Handles : Idle /\ Drop(h)
    \/ \E h \in Handles : Call(h)
    \/ Test
    \/ Return
    \/ Collect
    \/ Assign
    \/ Clone
    \/ Rebase

\* A call runs to its return: the steps of ensure_unique are taken as long
\* as one is possible.
SpecPromote == InitPromote /\ [][NextPromote]_vars /\ WF_vars(PromoteStep)

\* ------------------------------------------------------------ arrayformat
\* The longest axis, the most axes and the largest limit that are formatted.
MaxAxis == 7
MaxDims == 3
MaxLimit == 3

\* The limit that every formatting trait passes to format_array.
PRINT_ELEMENTS_LIMIT == 3

\* PrintableCell.
ElementIndex(i) == [cell |-> "ElementIndex", i |-> i]
Ellipses == [cell |-> "Ellipses", i |-> 0]

\* to_be_printed as a bug might write it: an axis of exactly 2 * limit
\* elements is elided too.
to_be_printed_strict(length, limit) ==
    IF length < 2 * limit
    THEN [k \in 1..length |-> ElementIndex(k - 1)]
    ELSE [k \in 1..limit |-> ElementIndex(k - 1)]
           \o << Ellipses >>
           \o [k \in 1..limit |-> ElementIndex(length - limit + k - 1)]

\* to_be_printed: the indexes of an axis that are printed, with an Ellipses
\* where indexes are omitted.
to_be_printed(length, limit) ==
    IF length <= 2 * limit
    THEN [k \in 1..length |-> ElementIndex(k - 1)]
    ELSE [k \in 1..limit |-> ElementIndex(k - 1)]
           \o << Ellipses >>
           \o [k \in 1..limit |-> ElementIndex(length - limit + k - 1)]

\* The output of a formatter is the sequence of the pieces written to it: a
\* literal piece s, or the element at logical (row-major) index i formatted
\* by the `format` argument.
Str(s) == << [t |-> s, i |-> 0] >>
format(i) == << [t |-> "elem", i |-> i] >>
repeat(s, n) == [k \in 1..n |-> [t |-> s, i |-> 0]]

\* The loop of format_1d_array from its j-th cell on (j from 1).
RECURSIVE format_1d_cells(_, _, _)
format_1d_cells(v, j, base) ==
    IF j > Len(v) THEN << >>
    ELSE (IF v[j].cell = "ElementIndex"
          THEN format(base + v[j].i)
                 \o (IF j # Len(v) THEN Str(", ") ELSE << >>)
          ELSE Str("..., "))
         \o format_1d_cells(v, j + 1, base)

\* format_1d_array of a view of n elements, the first at logical index base.
format_1d_array(n, base, limit) ==
    Str("[") \o format_1d_cells(to_be_printed(n, limit), 1, base) \o Str("]")

\* format_array as a bug might write it: without the test for an axis of
\* length 0.
RECURSIVE format_array_no_empty_test(_, _, _, _)
RECURSIVE format_cells_no_empty_test(_, _, _, _, _, _)
format_cells_no_empty_test(shape, base, limit, depth, v, j) ==
    IF j > Len(v) THEN << >>
    ELSE (IF v[j].cell = "ElementIndex"
          THEN (IF j # 1 THEN repeat(" ", depth + 1) ELSE << >>)
                 \o format_array_no_empty_test(Tail(shape),
                                base + v[j].i * size(Tail(shape)),
                                limit, depth + 1)
                 \o (IF j # Len(v)
                     THEN Str(",\n") \o repeat("\n", Len(shape) - 2)
                     ELSE << >>)
          ELSE repeat(" ", depth + 1) \o Str("...,\n")
                 \o repeat("\n", Len(shape) - 2))
         \o format_cells_no_empty_test(shape, base, limit, depth, v, j + 1)
format_array_no_empty_test(shape, base, limit, depth) ==
    IF Len(shape) = 0 THEN format(base)
    ELSE IF Len(shape) = 1 THEN format_1d_array(shape[1], base, limit)
    ELSE Str("[")
           \o format_cells_no_empty_test(shape, base, limit, depth,
                                         to_be_printed(shape[1], limit), 1)
           \o Str("]")

\* format_array of a view of the given shape whose first element has logical
\* index base; format_cells is its loop over the first axis from the j-th
\* cell on, index_axis(Axis(0), i) being the view of shape Tail(shape) that
\* starts i * size(Tail(shape)) elements later.
RECURSIVE format_array(_, _, _, _)
RECURSIVE format_cells(_, _, _, _, _, _)
format_cells(shape, base, limit, depth, v, j) ==
    IF j > Len(v) THEN << >>
    ELSE (IF v[j].cell = "ElementIndex"
          THEN (IF j # 1 THEN repeat(" ", depth + 1) ELSE << >>)
                 \o format_array(Tail(shape),
                                 base + v[j].i * size(Tail(shape)),
                                 limit, depth + 1)
                 \o (IF j # Len(v)
                     THEN Str(",\n") \o repeat("\n", Len(shape) - 2)
                     ELSE << >>)
          ELSE repeat(" ", depth + 1) \o Str("...,\n")
                 \o repeat("\n", Len(shape) - 2))
         \o format_cells(shape, base, limit, depth, v, j + 1)
format_array(shape, base, limit, depth) ==
    IF \E k \in 1..Len(shape) : shape[k] = 0
    THEN repeat("[", Len(shape)) \o repeat("]", Len(shape))
    ELSE IF Len(shape) = 0 THEN format(base)
    ELSE IF Len(shape) = 1 THEN format_1d_array(shape[1], base, limit)
    ELSE Str("[")
           \o format_cells(shape, base, limit, depth,
                           to_be_printed(shape[1], limit), 1)
           \o Str("]")

\* The shapes that are formatted: 0 to MaxDims axes of 0 to MaxAxis elements.
FormatShapes == UNION {[1..d -> 0..MaxAxis] : d \in 0..MaxDims}

\* The arguments of one call of the formatter, of any shape and limit; no
\* array storage is involved.
InitFormat ==
    /\ a_size = 0
    /\ arr = [h \in Handles |-> NoArray]
    /\ mem = [b \in Bufs |-> NoBuf]
    /\ \E shape \in FormatShapes, limit \in 0..MaxLimit :
          last = [op |-> "call", h |-> 1, branch |-> "none", again |-> FALSE,
                  shape |-> shape, limit |-> limit]
    /\ pre = NoPre
    /\ writes = 0

\* to_be_printed of the first axis, as format_array and format_1d_array
\* call it; the result is kept in last.ret.
ToBePrinted ==
    /\ last.op = "call"
    /\ Len(last.shape) >= 1
    /\ last' = [last EXCEPT !.op = "to_be_printed"]
                  @@ [ret |-> to_be_printed(last.shape[1], last.limit)]
    /\ UNCHANGED <<a_size, arr, mem, pre, writes>>

\* format_array at depth 0, as the formatting traits call it.
FormatArray ==
    /\ last.op = "call"
    /\ last' = [last EXCEPT !.op = "format_array"]
                  @@ [ret |-> format_array(last.shape, 0, last.limit, 0)]
    /\ UNCHANGED <<a_size, arr, mem, pre, writes>>

NextFormat ==
    \/ ToBePrinted
    \/ FormatArray

SpecFormat == InitFormat /\ [][NextFormat]_vars

\* ------------------------------------------------------- par_mapv_inplace
\* The parallel workers that process the elements.
MaxWorkers == 2
Workers == 1..MaxWorkers

\* The functions f that are mapped; none but "zero" is idempotent.
Fns == {"inc", "double", "zero"}
apply(fn, x) ==
    CASE fn = "inc" -> x + 1
      [] fn = "double" -> 2 * x
      [] fn = "zero" -> 0

\* mapv_inplace: the sequential replacement x := f(x), element by element.
mapv(fn, s) == [i \in 1..Len(s) |-> apply(fn, s[i])]

\* The closure of par_mapv_inplace as a bug might write it: f is applied to
\* its own result.
closure_applies_twice(fn, x) ==
    apply(fn, apply(fn, x))

\* The closure of par_mapv_inplace, move |x| *x = f(x.clone()): the value
\* that is stored for the value that was cloned.
closure(fn, x) ==
    apply(fn, x)

\* The place (from 1) in its buffer of the i-th element that handle x shows.
place(m, x, i) == elem_off(m, x) + iter(x.dim, x.strides)[i] + 1

\* No par_mapv_inplace has been called.
NotCalled == last.op \notin {"par_mapv_inplace", "par_done"}

\* One array, owned or shared, of elements with a size.
InitPar ==
    /\ Init
    /\ a_size # 0

\* par_mapv_inplace(f) is called on handle h: view_mut() promotes the
\* handle, and into_par_iter() holds every element of the view for the
\* workers.  The call is kept in `last`: the elements not yet handed out,
\* each worker's element and cloned value, and how often f was applied.
ParMapvInplace(h, fn) ==
    /\ NotCalled
    /\ arr[h].live /\ arr[h].kind \in DataMutImpl
    /\ LET r == ensure_unique_of(arr, mem, h)
       IN /\ arr' = r.arr
          /\ mem' = r.mem
          /\ last' = [op |-> "par_mapv_inplace", h |-> h, branch |-> r.branch,
                      again |-> FALSE, fn |-> fn,
                      todo |-> 1..size(arr[h].dim),
                      w |-> [k \in Workers |-> [pc |-> "idle", i |-> 0, x |-> 0]],
                      applied |-> [i \in 1..size(arr[h].dim) |-> 0]]
    /\ pre' = [arr |-> arr, mem |-> mem]
    /\ UNCHANGED <<a_size, writes>>

\* The parallel iterator hands element i to worker k.
Take(k, i) ==
    /\ last.op = "par_mapv_inplace"
    /\ last.w[k].pc = "idle"
    /\ i \in last.todo
    /\ last' = [last EXCEPT !.todo = @ \ {i},
                            !.w[k] = [pc |-> "taken", i |-> i, x |-> 0]]
    /\ UNCHANGED <<a_size, arr, mem, pre, writes>>

\* x.clone()
Load(k) ==
    /\ last.op = "par_mapv_inplace"
    /\ last.w[k].pc = "taken"
    /\ LET x == arr[last.h]
           at == place(mem, x, last.w[k].i)
       IN last' = [last EXCEPT !.w[k].pc = "cloned",
                               !.w[k].x = mem[x.data].elems[at]]
    /\ UNCHANGED <<a_size, arr, mem, pre, writes>>

\* *x = f(the clone)
Store(k) ==
    /\ last.op = "par_mapv_inplace"
    /\ last.w[k].pc = "cloned"
    /\ LET x == arr[last.h]
           at == place(mem, x, last.w[k].i)
       IN mem' = [mem EXCEPT ![x.data].elems[at] = closure(last.fn, last.w[k].x)]
    /\ last' = [last EXCEPT !.w[k] = [pc |-> "idle", i |-> 0, x |-> 0],
                            !.applied[last.w[k].i] = @ + 1]
    /\ UNCHANGED <<a_size, arr, pre, writes>>

\* for_each returns when every element was handed out and every worker is
\* done.
ParDone ==
    /\ last.op = "par_mapv_inplace"
    /\ last.todo = {}
    /\ \A k \in Workers : last.w[k].pc = "idle"
    /\ last' = [last EXCEPT !.op = "par_done"]
    /\ UNCHANGED <<a_size, arr, mem, pre, writes>>

NextPar ==
    \/ \E h \in Handles : NotCalled /\ Duplicate(h)
    \/ \E h \in Handles, k \in 1..2, name \in SliceNames :
          NotCalled /\ Slice(h, k, name)
    \/ \E h \in Handles, fn \in Fns : ParMapvInplace(h, fn)
    \/ \E k \in Workers, i \in 1..MaxLen : Take(k, i)
    \/ \E k \in Workers : Load(k)
    \/ \E k \in Workers : Store(k)
    \/ ParDone

SpecPar == InitPar /\ [][NextPar]_vars

\* ---------------------------------------------------------------- claims
\* The last operation was ensure_unique on a handle backed by a Shared
\* Buffer; the handle and its buffer before and after.
Promoted == last.op = "ensure_unique" /\ pre.arr[last.h].kind = "Rc"
Before == pre.arr[last.h]
After == arr[last.h]
BufBefore == pre.mem[Before.data]
BufAfter == mem[After.data]
\* The other handles that were live before the last operation.
Others == {g \in Handles \ {last.h} : pre.arr[g].live}
\* The handles that reference buffer b.
Refs(b) == {h \in Handles : arr[h].live /\ arr[h].data = b}

\* C1: a write through a Shared-Buffer handle, made right after its
\* ensure_unique, is not observable through any other live handle: every
\* other handle stays live and shows the elements it showed before.
CowIsolation ==
    (last.op = "write" /\ Before.kind = "Rc") =>
        \A g \in Others :
            /\ arr[g].live
            /\ visible(mem, arr[g]) = visible(pre.mem, pre.arr[g])

\* The write changed what its handle shows, after a copy, while another
\* handle referenced the same buffer.
CowIsolationWitness ==
    /\ last.op = "write" /\ Before.kind = "Rc"
    /\ last.branch \in {"compact", "full"}
    /\ visible(mem, After) # visible(pre.mem, Before)
    /\ \E g \in Others : pre.arr[g].data = Before.data /\ size(arr[g].dim) > 0

\* C2 as stated: ensure_unique leaves the visible elements as they were, and
\* of the handle only the buffer and the pointer may change (the dimension
\* and the strides stay).
PromotionChangesOnlyBufferAndPointer ==
    Promoted =>
        /\ visible(mem, After) = visible(pre.mem, Before)
        /\ After.dim = Before.dim
        /\ After.strides = Before.strides

\* C2 amended: ensure_unique leaves the visible elements and the dimension
\* as they were in every branch; the strides stay in the in-place and the
\* full-duplication branch and are the default strides of the dimension
\* after a compacting copy.
PromotionKeepsVisible ==
    Promoted =>
        /\ visible(mem, After) = visible(pre.mem, Before)
        /\ After.dim = Before.dim
        /\ After.strides = IF last.branch = "compact"
                           THEN default_strides(Before.dim)
                           ELSE Before.strides

\* A compacting copy of a view of two or more elements whose strides were
\* not the default ones.
PromotionKeepsVisibleWitness ==
    /\ Promoted /\ last.branch = "compact" /\ a_size # 0
    /\ size(Before.dim) >= 2
    /\ Before.strides # default_strides(Before.dim)

\* C3: after ensure_unique on a Shared-Buffer handle, whichever branch was
\* taken, the buffer of the handle has reference count 1.
PromotedIsUnique ==
    Promoted =>
        /\ After.live /\ BufAfter.alloc
        /\ BufAfter.strong = 1
        /\ is_unique(mem, After.data)

\* A promotion that copied: the buffer was shared before.
PromotedIsUniqueWitness ==
    /\ Promoted /\ last.branch = "full"
    /\ BufBefore.strong > 1

FullDuplication ==
    (Promoted /\ BufBefore.strong > 1
       /\ 2 * size(Before.dim) > Len(BufBefore.elems)) =>
        /\ After.data # Before.data
        /\ BufAfter.elems = BufBefore.elems
        /\ After.ptr - as_ptr(mem, After.data)
             = Before.ptr - as_ptr(pre.mem, Before.data)
        /\ elem_off(mem, After) = elem_off(pre.mem, Before)

\* A full duplication through a handle whose pointer was not at the start of
\* the buffer.
FullDuplicationWitness ==
    /\ Promoted /\ BufBefore.strong > 1
    /\ 2 * size(Before.dim) > Len(BufBefore.elems)
    /\ elem_off(pre.mem, Before) > 0
    /\ last.branch = "full"

\* C6: ensure_unique on a handle of a buffer with reference count 1 changes
\* nothing: handles and buffers are as before, however small the view.
InPlaceChangesNothing ==
    (Promoted /\ BufBefore.strong = 1) =>
        /\ arr = pre.arr
        /\ mem = pre.mem
        /\ last.branch = "inplace"

\* An in-place promotion of a view of at most half of its buffer.
InPlaceChangesNothingWitness ==
    /\ Promoted /\ BufBefore.strong = 1
    /\ Len(BufBefore.elems) >= 2
    /\ 2 * size(Before.dim) <= Len(BufBefore.elems)

\* C7: an ensure_unique that follows an ensure_unique of the same handle
\* with nothing in between is a no-op.
UniquenessIdempotence ==
    (Promoted /\ last.again) =>
        /\ arr = pre.arr
        /\ mem = pre.mem
        /\ last.branch = "inplace"
        /\ BufAfter.strong = 1

\* The second of two promotions in a row, while the buffer the handle came
\* from is still referenced by another handle.
UniquenessIdempotenceWitness ==
    /\ Promoted /\ last.again
    /\ \E g \in Others : arr[g].live /\ arr[g].kind = "Rc"
                           /\ arr[g].data # After.data

\* C8: the reference count of every Shared Buffer is the number of live
\* handles that reference it, a buffer is allocated exactly while some live
\* handle references it, and no promotion, write or duplication releases a
\* buffer (a promotion re-points a handle only away from a buffer that
\* another handle still references).
RefCountInvariant ==
    \A b \in Bufs :
        /\ mem[b].alloc <=> Refs(b) # {}
        /\ (\E h \in Refs(b) : arr[h].kind = "Rc") =>
               /\ \A h \in Refs(b) : arr[h].kind = "Rc"
               /\ mem[b].strong = Cardinality(Refs(b))
        /\ ~mem[b].alloc => mem[b] = NoBuf
        /\ (last.op \in {"ensure_unique", "write", "duplicate"}
              /\ pre.mem[b].alloc) => mem[b].alloc

\* A promotion re-pointed one of two sharers: both buffers have count 1.
RefCountInvariantWitness ==
    /\ last.op = "ensure_unique" /\ last.branch \in {"compact", "full"}
    /\ BufBefore.strong = 2
    /\ mem[Before.data].strong = 1
    /\ BufAfter.strong = 1

\* C9: duplicating a Shared-Buffer handle raises the reference count of its
\* buffer by exactly 1, creates no buffer, copies no element and preserves
\* the pointer.
DuplicateAddsOneReference ==
    (last.op = "duplicate" /\ Before.kind = "Rc") =>
        /\ mem[Before.data].strong = BufBefore.strong + 1
        /\ \A b \in Bufs : /\ mem[b].alloc = pre.mem[b].alloc
                           /\ mem[b].elems = pre.mem[b].elems
                           /\ b # Before.data => mem[b] = pre.mem[b]
        /\ \A g \in Handles :
              IF pre.arr[g].live THEN arr[g] = pre.arr[g]
              ELSE arr[g].live =>
                     /\ arr[g].data = Before.data
                     /\ arr[g].ptr = Before.ptr
        /\ Cardinality({g \in Handles : arr[g].live})
             = Cardinality({g \in Handles : pre.arr[g].live}) + 1

\* A duplication of a handle whose pointer is inside a non-empty buffer.
DuplicateAddsOneReferenceWitness ==
    /\ last.op = "duplicate" /\ Before.kind = "Rc"
    /\ BufBefore.strong >= 1
    /\ elem_off(pre.mem, Before) > 0

\* C10: the pointer of every handle backed by a Shared Buffer is inside the
\* buffer the handle references: at an element of it, or at its start when
\* the buffer is empty or the elements have no size.
PointerInBounds ==
    \A h \in Handles :
        (arr[h].live /\ arr[h].kind = "Rc") =>
            LET b == arr[h].data
                base == as_ptr(mem, b)
                n == Len(mem[b].elems)
            IN /\ mem[b].alloc
               /\ IF a_size = 0 \/ n = 0 THEN arr[h].ptr = base
                  ELSE /\ base <= arr[h].ptr
                       /\ arr[h].ptr < base + n * a_size
                       /\ (arr[h].ptr - base) % a_size = 0

\* A compacting copy of a zero-element view of a non-empty buffer: the new
\* buffer is empty.
PointerInBoundsWitness ==
    /\ Promoted /\ last.branch = "compact"
    /\ Len(BufAfter.elems) = 0
    /\ Len(BufBefore.elems) > 0
    /\ elem_off(pre.mem, Before) = 0

\* The handle views at most half of the elements of its buffer.
HalfView(m, x) == size(x.dim) <= Len(m[x.data].elems) \div 2
\* The element positions (from 0) of buffer x.data that handle x shows.
Positions(m, x) ==
    {elem_off(m, x) + iter(x.dim, x.strides)[i] : i \in 1..size(x.dim)}

Created == CHOOSE g \in Handles : ~pre.arr[g].live /\ arr[g].live

\* C13: the clone of a Shared-Buffer handle shows the elements the original
\* shows, at whatever element its view starts; and after ensure_unique of
\* either of the two, in the compacting and in the full-duplication branch
\* as in place, both still show those elements.
CloneFidelity ==
    /\ (last.op = "duplicate" /\ Before.kind = "Rc") =>
           /\ \E g \in Handles : ~pre.arr[g].live /\ arr[g].live
           /\ visible(mem, arr[Created]) = visible(pre.mem, Before)
           /\ visible(mem, After) = visible(pre.mem, Before)
    /\ Promoted =>
           \A g \in Others :
               (/\ pre.arr[g].data = Before.data
                /\ visible(pre.mem, pre.arr[g]) = visible(pre.mem, Before))
               => /\ visible(mem, arr[g]) = visible(pre.mem, Before)
                  /\ visible(mem, After) = visible(pre.mem, Before)

\* One of a handle and its clone, whose views start at a later element of
\* the shared buffer than the first, was promoted by a full duplication.
CloneFidelityWitness ==
    /\ Promoted /\ last.branch = "full"
    /\ elem_off(pre.mem, Before) > 0
    /\ \E g \in Others : /\ pre.arr[g].data = Before.data
                          /\ pre.arr[g].ptr = Before.ptr
                          /\ pre.arr[g].dim = Before.dim
                          /\ pre.arr[g].strides = Before.strides
                          /\ arr[g].data # After.data

\* C12: clone_with_ptr of an Owned Buffer, a Shared Buffer or an Immutable
\* View, for a pointer at any element of the storage, returns a storage of
\* the same kind with equal elements and a pointer at the same element
\* offset; for an Owned Buffer the duplicate is a different buffer, and the
\* original buffer and handle are as they were.
CloneWithPtrRebases ==
    last.op = "duplicate" =>
        LET g == Created
        IN /\ Before.kind \in {"Vec", "Rc", "View"}
           /\ arr[g].kind = Before.kind
           /\ mem[arr[g].data].elems = pre.mem[Before.data].elems
           /\ elem_off(mem, arr[g]) = elem_off(pre.mem, Before)
           /\ visible(mem, arr[g]) = visible(pre.mem, Before)
           /\ After = Before
           /\ mem[Before.data].elems = pre.mem[Before.data].elems
           /\ Before.kind = "Vec" =>
                  /\ arr[g].data # Before.data
                  /\ ~pre.mem[arr[g].data].alloc
                  /\ mem[Before.data] = pre.mem[Before.data]
           /\ Before.kind \in {"Rc", "View"} =>
                  /\ arr[g].data = Before.data
                  /\ arr[g].ptr = Before.ptr

\* An owned array whose view starts at a later element of its buffer was
\* duplicated.
CloneWithPtrRebasesWitness ==
    /\ last.op = "duplicate" /\ Before.kind = "Vec"
    /\ elem_off(pre.mem, Before) > 0
    /\ size(Before.dim) > 0

\* C14: when the elements have size 0, ensure_unique of a Shared Buffer,
\* clone_with_ptr of an Owned Buffer and clone_from_with_ptr of an Owned
\* Buffer complete without a division by the element size (ensure_unique in
\* one of its three branches), and the pointer they produce is at offset 0
\* of the resulting buffer.
ZeroSizedOffsetZero ==
    a_size = 0 =>
        /\ Promoted =>
               /\ last.branch \in {"inplace", "compact", "full"}
               /\ is_unique(mem, After.data)
               /\ After.ptr = as_ptr(mem, After.data)
               /\ After.ptr = offset(as_ptr(mem, After.data), 0)
        /\ (last.op = "duplicate" /\ Before.kind = "Vec") =>
               /\ arr[Created].live
               /\ arr[Created].ptr = offset(as_ptr(mem, arr[Created].data), 0)
        /\ (last.op = "clone_from" /\ Before.kind = "Vec") =>
               /\ After.live
               /\ After.ptr = offset(as_ptr(mem, After.data), 0)

\* A view of more than half of a shared buffer of zero-sized elements was
\* promoted.
ZeroSizedOffsetZeroWitness ==
    /\ a_size = 0
    /\ Promoted /\ BufBefore.strong > 1
    /\ size(Before.dim) > Len(BufBefore.elems) \div 2
    /\ After.data # Before.data

\* C15: into_shared of an Owned Buffer, such as new(e) builds, gives a
\* Shared Buffer with count exactly 1 that holds the elements e in order in
\* the allocation the Vec had: no buffer is allocated or released, and the
\* pointer, dimension and strides of the handle and every other handle and
\* buffer are as they were.
IntoSharedOfNew ==
    (last.op = "into_shared" /\ Before.kind = "Vec") =>
        /\ After = [Before EXCEPT !.kind = "Rc"]
        /\ BufAfter.strong = 1
        /\ BufAfter.elems = BufBefore.elems
        /\ \A b \in Bufs : mem[b].alloc = pre.mem[b].alloc
        /\ \A b \in Bufs \ {After.data} : mem[b] = pre.mem[b]
        /\ \A g \in Others : arr[g] = pre.arr[g]
        /\ Refs(After.data) = {last.h}

\* A newly built owned array of three elements or more became shared.
IntoSharedOfNewWitness ==
    /\ last.op = "into_shared" /\ Before.kind = "Vec"
    /\ is_standard_layout(pre.mem, Before)
    /\ Len(BufBefore.elems) >= 3
    /\ After.kind = "Rc"

\* The slice s holds every element that handle x shows, at the position of
\* the element in the memory of x (elements of size 0 have no position: s
\* holds as many as x shows).
HoldsReachable(s, m, x) ==
    IF a_size = 0 THEN size(x.dim) <= Len(s)
    ELSE \A i \in 1..size(x.dim) :
            LET at == elem_off(m, x) + iter(x.dim, x.strides)[i] + 1
            IN /\ at \in 1..Len(s)
               /\ s[at] = visible(m, x)[i]

CapabilityAbsence ==
    /\ last.op \in {"ensure_unique", "write"} => Before.kind # "View"
    /\ last.op \in {"duplicate", "clone_from"} => Before.kind # "ViewMut"
    /\ \A h \in Handles :
          (arr[h].live /\ arr[h].kind = "View") =>
              mem[arr[h].data].elems
                  = [i \in 1..Len(mem[arr[h].data].elems) |->
                        IF a_size = 0 THEN Unit ELSE i]
    /\ \A h \in Handles, g \in Handles :
          (h # g /\ arr[h].live /\ arr[g].live /\ arr[h].kind = "ViewMut")
              => arr[g].data # arr[h].data

\* An element was written through a Mutable View while a handle slot was
\* free for a duplicate.
CapabilityAbsenceWitness ==
    /\ last.op = "write" /\ Before.kind = "ViewMut"
    /\ mem[After.data].elems # pre.mem[Before.data].elems
    /\ \E g \in Handles : ~arr[g].live

\* C18: for an Owned Buffer and for a Mutable View, ensure_unique leaves
\* every handle and every buffer as it was and is_unique is true in every
\* state; a write through such a handle changes elements of its buffer and
\* nothing of the handle.
OwnedAndMutableViewAreUnique ==
    /\ (last.op = "ensure_unique" /\ Before.kind \in {"Vec", "ViewMut"}) =>
           /\ arr = pre.arr
           /\ mem = pre.mem
    /\ (last.op = "write" /\ Before.kind \in {"Vec", "ViewMut"}) =>
           /\ arr = pre.arr
           /\ \A b \in Bufs \ {Before.data} : mem[b] = pre.mem[b]
           /\ mem[Before.data].alloc
           /\ Len(mem[Before.data].elems) = Len(pre.mem[Before.data].elems)
    /\ \A h \in Handles :
          (arr[h].live /\ arr[h].kind \in {"Vec", "ViewMut"})
              => is_unique_of(mem, arr[h])

\* ensure_unique was called on an owned array of which a duplicate is live.
OwnedAndMutableViewAreUniqueWitness ==
    /\ last.op = "ensure_unique" /\ Before.kind = "Vec"
    /\ size(Before.dim) > 0
    /\ \E g \in Others : arr[g].live /\ arr[g].kind = "Vec"

\* C20: ensure_unique on a Shared-Buffer handle, called in any reachable
\* state, returns: after at most two steps more than the buffer has
\* elements, and with the result of one of its three branches (in place,
\* compacting copy, full duplication); it never waits for another handle.
PromotionTerminates ==
    /\ [](last.op = "promoting" =>
             last.steps <= Len(mem[arr[last.h].data].elems) + 1)
    /\ []((last.op = "ensure_unique") =>
             /\ last.branch \in {"inplace", "compact", "full"}
             /\ ensure_unique(pre.arr, pre.mem, last.h)
                   = [arr |-> arr, mem |-> mem, branch |-> last.branch])
    /\ (last.op = "promoting") ~> (last.op = "ensure_unique")

\* ensure_unique returned after the copy of a shared buffer of four
\* elements.
PromotionTerminatesWitness ==
    /\ Promoted /\ last.branch = "full"
    /\ Len(BufBefore.elems) = 4
    /\ Len(BufAfter.elems) = 4
    /\ After.data # Before.data
    /\ \E g \in Others : arr[g].live /\ arr[g].data = Before.data

CopyingPromotionFrame ==
    (/\ last.op \in {"ensure_unique", "write"}
     /\ Before.kind = "Rc" /\ last.branch \in {"compact", "full"}) =>
        /\ mem[Before.data].alloc
        /\ mem[Before.data].elems = BufBefore.elems
        /\ mem[Before.data].strong = BufBefore.strong - 1
        /\ After.data # Before.data
        /\ \A g \in Others :
              /\ arr[g] = pre.arr[g]
              /\ elem_off(mem, arr[g]) = elem_off(pre.mem, pre.arr[g])
        /\ \A b \in Bufs \ {Before.data, After.data} : mem[b] = pre.mem[b]

\* A write after a full duplication, while another handle shows elements of
\* the original buffer from a later element on.
CopyingPromotionFrameWitness ==
    /\ last.op = "write" /\ Before.kind = "Rc" /\ last.branch = "full"
    /\ BufAfter.elems # BufBefore.elems
    /\ \E g \in Others : /\ arr[g].data = Before.data
                          /\ elem_off(mem, arr[g]) > 0

\* C26: after a compacting copy the handle shows the whole of its new
\* buffer, from its first element; so when that handle, showing an element
\* or more, is duplicated and one of the two is promoted, the promotion is a
\* full duplication: a handle that shows all of a shared non-empty buffer is
\* never compacted.
CompactThenFull ==
    /\ (/\ last.op \in {"ensure_unique", "write"}
        /\ Before.kind = "Rc" /\ last.branch = "compact") =>
           /\ size(After.dim) = Len(BufAfter.elems)
           /\ elem_off(mem, After) = 0
           /\ After.ptr = as_ptr(mem, After.data)
           /\ After.strides = default_strides(After.dim)
           /\ size(After.dim) > 0 =>
                 LET r == clone_with_ptr_Rc(mem, After.data, After.ptr)
                 IN /\ r.ptr = After.ptr /\ r.data = After.data
                    /\ test_step(arr, r.mem,
                                 [h |-> last.h, pc |-> "test", steps |-> 0,
                                  branch |-> "none"]).branch = "full"
    /\ (/\ Promoted /\ BufBefore.strong > 1
        /\ size(Before.dim) = Len(BufBefore.elems)
        /\ size(Before.dim) > 0) => last.branch = "full"

\* A handle that shows the whole of a buffer shorter than any constructed
\* buffer, the product of a compacting copy, was duplicated and promoted.
CompactThenFullWitness ==
    /\ Promoted /\ BufBefore.strong > 1
    /\ Len(BufBefore.elems) \in 1..2
    /\ is_standard_layout(pre.mem, Before)
    /\ last.branch = "full"

\* C27: into_shared of a Shared Buffer is the same buffer: every handle and
\* every buffer, the count included, is as it was, so no buffer is allocated
\* and no element copied, and a second into_shared changes nothing either;
\* and no operation makes an Owned Buffer of a Shared Buffer.
IntoSharedOfShared ==
    /\ (last.op = "into_shared" /\ Before.kind = "Rc") =>
           /\ arr = pre.arr
           /\ mem = pre.mem
           /\ BufAfter.strong = BufBefore.strong
    /\ last.op = "into_shared" =>
           /\ After.kind = "Rc"
           /\ After.data = Before.data
           /\ BufAfter.elems = BufBefore.elems
    /\ \A g \in Handles :
           (pre.arr[g].kind = "Rc" /\ arr[g].live) => arr[g].kind = "Rc"

\* into_shared of a handle whose buffer another handle shares.
IntoSharedOfSharedWitness ==
    /\ last.op = "into_shared" /\ Before.kind = "Rc"
    /\ BufBefore.strong = 2
    /\ \E g \in Others : arr[g].data = After.data

\* The handle that the last operation, a clone_from, took the elements from.
Source == pre.arr[last.from]

\* C28: clone_from_with_ptr of an Owned Buffer gives what the assignment of
\* clone_with_ptr(other, ptr) gives: self holds the elements of other, other
\* and its buffer are as they were, and the pointer is at the element offset
\* in self that ptr had in other; as after the default clone_from_with_ptr of
\* a Shared Buffer or an Immutable View, the handle shows what other shows.
CloneFromIsAssignedClone ==
    /\ (last.op = "clone_from" /\ Before.kind = "Vec") =>
           LET r == clone_with_ptr_Vec([pre.mem EXCEPT ![Before.data] = NoBuf],
                                       Source.data, Source.ptr)
           IN /\ mem[After.data].elems = r.mem[r.data].elems
              /\ After.ptr - as_ptr(mem, After.data)
                    = r.ptr - as_ptr(r.mem, r.data)
              /\ mem[After.data].elems = pre.mem[Source.data].elems
              /\ elem_off(mem, After) = elem_off(pre.mem, Source)
              /\ After.data # Source.data
              /\ arr[last.from] = Source
              /\ mem[Source.data] = pre.mem[Source.data]
    /\ last.op = "clone_from" =>
           /\ After.kind = Source.kind
           /\ elem_off(mem, After) = elem_off(pre.mem, Source)
           /\ visible(mem, After) = visible(pre.mem, Source)
           /\ visible(mem, arr[last.from]) = visible(pre.mem, Source)

\* An owned array took the elements of another, which differed from its own
\* and which the other shows from a later element on.
CloneFromIsAssignedCloneWitness ==
    /\ last.op = "clone_from" /\ Before.kind = "Vec"
    /\ elem_off(pre.mem, Source) > 0
    /\ BufBefore.elems # pre.mem[Source.data].elems

\* C21: to_be_printed(n, l) is the indexes 0..n-1 in increasing order without
\* an ellipsis when n <= 2 * l, and otherwise the first l indexes, one
\* ellipsis and the last l indexes n-l..n-1: an ellipsis is there exactly
\* when n > 2 * l, and at most 2 * l elements of an axis are printed, as the
\* output of a one-dimensional array shows.
ToBePrintedElision ==
    /\ last.op = "to_be_printed" =>
          LET n == last.shape[1]
              l == last.limit
              v == last.ret
          IN /\ n <= 2 * l => v = [k \in 1..n |-> ElementIndex(k - 1)]
             /\ n > 2 * l =>
                   /\ Len(v) = 2 * l + 1
                   /\ \A k \in 1..l : v[k] = ElementIndex(k - 1)
                   /\ v[l + 1] = Ellipses
                   /\ \A k \in 1..l : v[l + 1 + k] = ElementIndex(n - l + k - 1)
             /\ (\E k \in 1..Len(v) : v[k] = Ellipses) <=> n > 2 * l
             /\ Cardinality({k \in 1..Len(v) : v[k] = Ellipses}) <= 1
             /\ Cardinality({k \in 1..Len(v) : v[k].cell = "ElementIndex"})
                   <= 2 * l
             /\ \A j \in 1..Len(v), k \in 1..Len(v) :
                   (j < k /\ v[j].cell = "ElementIndex"
                          /\ v[k].cell = "ElementIndex") => v[j].i < v[k].i
    /\ (last.op = "format_array" /\ Len(last.shape) = 1) =>
          LET n == last.shape[1]
              l == last.limit
              out == last.ret
              elems == SelectSeq(out, LAMBDA p : p.t = "elem")
              dots == SelectSeq(out, LAMBDA p : p.t = "..., ")
          IN /\ Len(elems) = IF n <= 2 * l THEN n ELSE 2 * l
             /\ Len(dots) = IF n > 2 * l THEN 1 ELSE 0
             /\ \A k \in 1..Len(elems) :
                   elems[k].i = IF n <= 2 * l \/ k <= l THEN k - 1
                                ELSE n - 2 * l + k - 1

\* to_be_printed of an axis of one element more than twice the limit of the
\* formatting traits.
ToBePrintedElisionWitness ==
    /\ last.op = "to_be_printed"
    /\ last.limit = PRINT_ELEMENTS_LIMIT
    /\ last.shape[1] = 2 * PRINT_ELEMENTS_LIMIT + 1
    /\ Len(last.ret) = 2 * PRINT_ELEMENTS_LIMIT + 1

\* C22: the output for an array of d >= 1 axes of which one or more,
\* whichever, has length 0 is d opening brackets and then d closing
\* brackets: no element, separator or ellipsis.
EmptyArrayFormat ==
    (/\ last.op = "format_array"
     /\ \E k \in 1..Len(last.shape) : last.shape[k] = 0) =>
        LET d == Len(last.shape)
        IN /\ Len(last.ret) = 2 * d
           /\ \A k \in 1..d : last.ret[k].t = "["
           /\ \A k \in d + 1..2 * d : last.ret[k].t = "]"

\* An array of shape (3, 0, 4) was formatted.
EmptyArrayFormatWitness ==
    /\ last.op = "format_array"
    /\ last.shape = <<3, 0, 4>>
    /\ last.limit = PRINT_ELEMENTS_LIMIT
    /\ Len(last.ret) = 6

\* The elements that the handle of the running or finished par_mapv_inplace
\* showed when it was called.
Original == visible(pre.mem, Before)

\* Under every order and interleaving of the workers, f is applied to each
\* element at most once while the call runs and exactly once when it has
\* returned, every element is f of its original value once f was applied to
\* it and its original value before, so the array after the call is what
\* the sequential mapv_inplace gives; the dimension is unchanged.
ParIsSequential ==
    /\ last.op \in {"par_mapv_inplace", "par_done"} =>
          /\ After.dim = Before.dim
          /\ \A i \in 1..size(After.dim) :
                /\ last.applied[i] \in {0, 1}
                /\ (i \in last.todo \/ \E k \in Workers : last.w[k].i = i)
                      <=> last.applied[i] = 0
                /\ visible(mem, After)[i]
                      = IF last.applied[i] = 1
                        THEN apply(last.fn, Original[i])
                        ELSE Original[i]
    /\ last.op = "par_done" =>
          /\ \A i \in 1..size(After.dim) : last.applied[i] = 1
          /\ visible(mem, After) = mapv(last.fn, Original)

\* C23 as stated: par_mapv_inplace gives what the sequential mapv_inplace
\* gives, with f applied to each element exactly once, and leaves the
\* dimension and the strides of the array as they were.
ParMapvKeepsStrides ==
    /\ ParIsSequential
    /\ last.op = "par_done" => After.strides = Before.strides

\* C23 amended: par_mapv_inplace gives what the sequential mapv_inplace
\* gives, with f applied to each element exactly once, and leaves the
\* dimension as it was; the strides are as they were unless the array was a
\* Shared Buffer whose promotion took the compacting copy, after which they
\* are the default strides of the dimension.
ParMapvInplaceIsMapv ==
    /\ ParIsSequential
    /\ last.op = "par_done" =>
          IF last.branch = "compact"
          THEN After.strides = default_strides(After.dim)
          ELSE After.strides = Before.strides

\* The workers have mapped the four elements of an array with an f that is
\* not idempotent, and the call has returned.
ParMapvInplaceIsMapvWitness ==
    /\ last.op = "par_done" /\ last.fn = "double"
    /\ size(After.dim) = 4
    /\ visible(mem, After) = mapv("double", Original)
    /\ visible(mem, After) # Original

====
